---- MODULE Spec2Model ----
(***************************************************************************)
(* Model of naphome_phase09_test/main/generate_wav.py: one run of the      *)
(* script, from the call of generate_wav to the process exit.              *)
(*                                                                         *)
(* Python integers are unbounded; the sample rate and the values handed to *)
(* struct.pack are kept as two limbs  hi * 65536 + lo  (lo in 0..65535, hi *)
(* any integer), so that values at and beyond 2^32 are represented exactly *)
(* and struct.pack's range check is modelled at its real width.            *)
(***************************************************************************)
EXTENDS Integers, Sequences, FiniteSets, TLC

VARIABLES pc, sample_rate, response, audio_data, disk, handle, wpos, exc,
          retval, exit_code, requests, json_calls, decode_calls, opens, diag

vars == <<pc, sample_rate, response, audio_data, disk, handle, wpos, exc,
          retval, exit_code, requests, json_calls, decode_calls, opens, diag>>

----------------------------------------------------------------------------
(* Bounds of the model *)

\* longest audioContent string the modelled service returns
MaxB64Len == 4

----------------------------------------------------------------------------
(* Python integers as two limbs *)

Limb == 65536

PyInt(n) == [hi |-> n \div Limb, lo |-> n % Limb]

\* a * k for a small machine integer k
PyMul(a, k) == [hi |-> a.hi * k + ((a.lo * k) \div Limb), lo |-> (a.lo * k) % Limb]

----------------------------------------------------------------------------
(* struct.pack('<I', v) and struct.pack('<H', v) *)

\* struct.error unless 0 <= v <= 2^32 - 1
CanPackU32(v) == v.hi >= 0 /\ v.hi < Limb

\* struct.error unless 0 <= v <= 2^16 - 1
CanPackU16(v) == v.hi = 0

PackU32_BigEndian(v) == <<v.hi \div 256, v.hi % 256, v.lo \div 256, v.lo % 256>>

PackU32(v) == <<v.lo % 256, v.lo \div 256, v.hi % 256, v.hi \div 256>>

PackU16(v) == <<v.lo % 256, v.lo \div 256>>

----------------------------------------------------------------------------
(* base64.b64decode(s), validate=False: binascii.a2b_base64 *)

B64Alphabet ==
    << "A","B","C","D","E","F","G","H","I","J","K","L","M","N","O","P",
       "Q","R","S","T","U","V","W","X","Y","Z","a","b","c","d","e","f",
       "g","h","i","j","k","l","m","n","o","p","q","r","s","t","u","v",
       "w","x","y","z","0","1","2","3","4","5","6","7","8","9","+","/" >>

IsB64Char(ch) == \E i \in 1..64 : B64Alphabet[i] = ch

B64Value(ch) == (CHOOSE i \in 1..64 : B64Alphabet[i] = ch) - 1

\* The decoding loop.  Result: [ok, out]; ok is FALSE for binascii.Error.
RECURSIVE A2B(_, _, _, _, _, _)
A2B(s, i, quad_pos, leftchar, pads, out) ==
    IF i > Len(s)
    THEN [ok |-> quad_pos = 0, out |-> out]
    ELSE LET ch == s[i] IN
         IF ch = "="
         THEN IF quad_pos >= 2 /\ quad_pos + pads + 1 >= 4
              THEN [ok |-> TRUE, out |-> out]
              ELSE A2B(s, i + 1, quad_pos, leftchar,
                       IF quad_pos >= 2 THEN pads + 1 ELSE pads, out)
         ELSE IF ~IsB64Char(ch)
         THEN A2B(s, i + 1, quad_pos, leftchar, pads, out)
         ELSE LET c == B64Value(ch) IN
              CASE quad_pos = 0 -> A2B(s, i + 1, 1, c, 0, out)
                [] quad_pos = 1 ->
                     A2B(s, i + 1, 2, c % 16, 0,
                         Append(out, leftchar * 4 + (c \div 16)))
                [] quad_pos = 2 ->
                     A2B(s, i + 1, 3, c % 4, 0,
                         Append(out, leftchar * 16 + (c \div 4)))
                [] quad_pos = 3 ->
                     A2B(s, i + 1, 0, 0, 0,
                         Append(out, leftchar * 64 + c))

b64decode(s) == A2B(s, 1, 0, 0, 0, <<>>)

----------------------------------------------------------------------------
(* The environment: arguments and service responses *)

\* characters of the audioContent strings the modelled service returns:
\* two alphabet characters, the pad and one character outside the alphabet
B64Chars == {"A", "/", "=", "!"}

RECURSIVE StringsUpTo(_)
StringsUpTo(n) ==
    IF n = 0 THEN {<<>>}
    ELSE LET shorter == StringsUpTo(n - 1) IN
         shorter \cup {Append(s, c) : s \in {t \in shorter : Len(t) = n - 1},
                                      c \in B64Chars}

B64Strings == StringsUpTo(MaxB64Len)

\* sample_rate arguments: 0, 8000, 44100 (the one __main__ passes),
\* 2^31 - 1, 2^31, 2^32 and -1
SampleRates ==
    { PyInt(0), PyInt(8000), PyInt(44100),
      [hi |-> 32767, lo |-> 65535], [hi |-> 32768, lo |-> 0],
      [hi |-> 65536, lo |-> 0], PyInt(-1) }

StatusCodes == {200, 403, 500}

\* body: what response.json() finds; field: the audioContent member
Responses ==
    [status : StatusCodes, body : {"notjson", "list", "scalar"},
     field : {"absent"}, content : {<<>>}]
    \cup
    [status : StatusCodes, body : {"object"},
     field : {"absent", "nonstring"}, content : {<<>>}]
    \cup
    [status : StatusCodes, body : {"object"},
     field : {"string"}, content : B64Strings]

NoResponse == [status |-> 0, body |-> "none", field |-> "absent", content |-> <<>>]

\* the output path does not exist
Absent == <<-1>>

----------------------------------------------------------------------------
(* generate_wav: the checks on the response *)

StatusOK_Lenient(r) == r.status < 500

\* line 43: response.status_code != 200 is the failure
StatusOK(r) == r.status = 200

\* line 49: response.json() raises when the body is not JSON
JsonParses(r) == r.body # "notjson"

\* line 50: the operator `in` raises TypeError on a JSON scalar
MembershipRaises(r) == r.body = "scalar"

\* line 50: "audioContent" in result
HasAudioContent(r) == r.body = "object" /\ r.field # "absent"

\* line 56: b64decode raises TypeError on a value that is not a string
\* and binascii.Error on a string it cannot decode
DecodeRaises(r) == r.field # "string" \/ ~b64decode(r.content).ok

----------------------------------------------------------------------------
(* generate_wav: the WAV header values, lines 64-69 *)

num_channels == 1

bits_per_sample == 16

byte_rate_NoDiv == PyMul(PyMul(sample_rate, num_channels), bits_per_sample)

byte_rate == PyMul(PyMul(sample_rate, num_channels), bits_per_sample \div 8)

block_align == num_channels * (bits_per_sample \div 8)

data_size == Len(audio_data)

file_size_WithHeader == PyInt(44 + data_size)

file_size == PyInt(36 + data_size)

----------------------------------------------------------------------------
(* generate_wav: the fourteen f.write statements of lines 73-90, in order. *)
(* fmt is the struct format ("raw" for a bytes literal or the buffer), val *)
(* the value packed or the bytes written.                                  *)

NumWrites == 14

WriteStmt_SwappedAlign(i) ==
    CASE i = 1  -> [fmt |-> "raw", val |-> <<82, 73, 70, 70>>]
      [] i = 2  -> [fmt |-> "I",   val |-> file_size]
      [] i = 3  -> [fmt |-> "raw", val |-> <<87, 65, 86, 69>>]
      [] i = 4  -> [fmt |-> "raw", val |-> <<102, 109, 116, 32>>]
      [] i = 5  -> [fmt |-> "I",   val |-> PyInt(16)]
      [] i = 6  -> [fmt |-> "H",   val |-> PyInt(1)]
      [] i = 7  -> [fmt |-> "H",   val |-> PyInt(num_channels)]
      [] i = 8  -> [fmt |-> "I",   val |-> sample_rate]
      [] i = 9  -> [fmt |-> "I",   val |-> byte_rate]
      [] i = 10 -> [fmt |-> "H",   val |-> PyInt(bits_per_sample)]
      [] i = 11 -> [fmt |-> "H",   val |-> PyInt(block_align)]
      [] i = 12 -> [fmt |-> "raw", val |-> <<100, 97, 116, 97>>]
      [] i = 13 -> [fmt |-> "I",   val |-> PyInt(data_size)]
      [] i = 14 -> [fmt |-> "raw", val |-> audio_data]

WriteStmt(i) ==
    CASE i = 1  -> [fmt |-> "raw", val |-> <<82, 73, 70, 70>>]      \* b'RIFF'
      [] i = 2  -> [fmt |-> "I",   val |-> file_size]
      [] i = 3  -> [fmt |-> "raw", val |-> <<87, 65, 86, 69>>]      \* b'WAVE'
      [] i = 4  -> [fmt |-> "raw", val |-> <<102, 109, 116, 32>>]   \* b'fmt '
      [] i = 5  -> [fmt |-> "I",   val |-> PyInt(16)]
      [] i = 6  -> [fmt |-> "H",   val |-> PyInt(1)]
      [] i = 7  -> [fmt |-> "H",   val |-> PyInt(num_channels)]
      [] i = 8  -> [fmt |-> "I",   val |-> sample_rate]
      [] i = 9  -> [fmt |-> "I",   val |-> byte_rate]
      [] i = 10 -> [fmt |-> "H",   val |-> PyInt(block_align)]
      [] i = 11 -> [fmt |-> "H",   val |-> PyInt(bits_per_sample)]
      [] i = 12 -> [fmt |-> "raw", val |-> <<100, 97, 116, 97>>]    \* b'data'
      [] i = 13 -> [fmt |-> "I",   val |-> PyInt(data_size)]
      [] i = 14 -> [fmt |-> "raw", val |-> audio_data]

\* struct.pack raises struct.error
PackRaises(st) ==
    \/ st.fmt = "I" /\ ~CanPackU32(st.val)
    \/ st.fmt = "H" /\ ~CanPackU16(st.val)

\* the bytes handed to f.write
WriteBytes(st) ==
    CASE st.fmt = "I" -> PackU32(st.val)
      [] st.fmt = "H" -> PackU16(st.val)
      [] OTHER        -> st.val

----------------------------------------------------------------------------
(* __main__: the exit status *)

ExitStatus_AlwaysZero(success) == 0

\* line 109: sys.exit(0 if success else 1)
ExitStatus(success) == IF success = "True" THEN 0 ELSE 1

\* an exception that leaves __main__: the interpreter prints the traceback
\* and exits with status 1
UncaughtExitStatus == 1

----------------------------------------------------------------------------
(* The run *)

Init ==
    /\ pc = "start"
    /\ sample_rate \in SampleRates
    /\ response = NoResponse
    /\ audio_data = <<>>
    /\ disk = Absent
    /\ handle = "none"
    /\ wpos = 0
    /\ exc = "none"
    /\ retval = "none"
    /\ exit_code = -1
    /\ requests = 0
    /\ json_calls = 0
    /\ decode_calls = 0
    /\ opens = 0
    /\ diag = "none"

\* an exception leaves generate_wav (no try/except anywhere in the file)
Raise(e) ==
    /\ exc' = e
    /\ pc' = "raised"
    /\ retval' = "raised"

\* lines 36-41: requests.post answers
PostAnswered ==
    /\ pc = "start"
    /\ requests' = requests + 1
    /\ \E r \in Responses : response' = r
    /\ pc' = "status"
    /\ UNCHANGED <<sample_rate, audio_data, disk, handle, wpos, exc, retval,
                   exit_code, json_calls, decode_calls, opens, diag>>

\* lines 36-41: requests.post raises (connection error, timeout=15 expired)
PostFailed ==
    /\ pc = "start"
    /\ requests' = requests + 1
    /\ Raise("RequestException")
    /\ UNCHANGED <<sample_rate, response, audio_data, disk, handle, wpos,
                   exit_code, json_calls, decode_calls, opens, diag>>

CheckStatus_RetryOnce ==
    /\ pc = "status"
    /\ IF StatusOK(response)
       THEN /\ pc' = "json"
            /\ UNCHANGED <<retval, diag>>
       ELSE IF requests < 2
       THEN /\ pc' = "start"
            /\ UNCHANGED <<retval, diag>>
       ELSE /\ diag' = "http_error"
            /\ retval' = "False"
            /\ pc' = "returned"
    /\ UNCHANGED <<sample_rate, response, audio_data, disk, handle, wpos, exc,
                   exit_code, requests, json_calls, decode_calls, opens>>

\* lines 43-46
CheckStatus ==
    /\ pc = "status"
    /\ IF StatusOK(response)
       THEN /\ pc' = "json"
            /\ UNCHANGED <<retval, diag>>
       ELSE /\ diag' = "http_error"
            /\ retval' = "False"
            /\ pc' = "returned"
    /\ UNCHANGED <<sample_rate, response, audio_data, disk, handle, wpos, exc,
                   exit_code, requests, json_calls, decode_calls, opens>>

\* line 49
ParseJson ==
    /\ pc = "json"
    /\ json_calls' = json_calls + 1
    /\ IF JsonParses(response)
       THEN /\ pc' = "field"
            /\ UNCHANGED <<exc, retval>>
       ELSE Raise("JSONDecodeError")
    /\ UNCHANGED <<sample_rate, response, audio_data, disk, handle, wpos,
                   exit_code, requests, decode_calls, opens, diag>>

CheckField_EmptyDefault ==
    /\ pc = "field"
    /\ IF MembershipRaises(response)
       THEN /\ Raise("TypeError")
            /\ UNCHANGED diag
       ELSE IF HasAudioContent(response)
       THEN /\ pc' = "decode"
            /\ UNCHANGED <<exc, retval, diag>>
       ELSE /\ pc' = "open"
            /\ UNCHANGED <<exc, retval, diag>>
    /\ UNCHANGED <<sample_rate, response, audio_data, disk, handle, wpos,
                   exit_code, requests, json_calls, decode_calls, opens>>

\* lines 50-53
CheckField ==
    /\ pc = "field"
    /\ IF MembershipRaises(response)
       THEN /\ Raise("TypeError")
            /\ UNCHANGED diag
       ELSE IF HasAudioContent(response)
       THEN /\ pc' = "decode"
            /\ UNCHANGED <<exc, retval, diag>>
       ELSE /\ diag' = "no_audio"
            /\ retval' = "False"
            /\ pc' = "returned"
            /\ UNCHANGED exc
    /\ UNCHANGED <<sample_rate, response, audio_data, disk, handle, wpos,
                   exit_code, requests, json_calls, decode_calls, opens>>

\* line 56
Decode ==
    /\ pc = "decode"
    /\ decode_calls' = decode_calls + 1
    /\ IF DecodeRaises(response)
       THEN /\ Raise(IF response.field = "string" THEN "binascii.Error"
                                                  ELSE "TypeError")
            /\ UNCHANGED audio_data
       ELSE /\ audio_data' = b64decode(response.content).out
            /\ pc' = "open"
            /\ UNCHANGED <<exc, retval>>
    /\ UNCHANGED <<sample_rate, response, disk, handle, wpos, exit_code,
                   requests, json_calls, opens, diag>>

\* line 71: open(output_file, 'wb') creates or truncates the file
OpenFile ==
    /\ pc = "open"
    /\ opens' = opens + 1
    /\ disk' = <<>>
    /\ handle' = "open"
    /\ wpos' = 1
    /\ pc' = "write"
    /\ UNCHANGED <<sample_rate, response, audio_data, exc, retval, exit_code,
                   requests, json_calls, decode_calls, diag>>

\* line 71: open raises OSError (no permission, no such directory)
OpenFailed ==
    /\ pc = "open"
    /\ Raise("OSError")
    /\ UNCHANGED <<sample_rate, response, audio_data, disk, handle, wpos,
                   exit_code, requests, json_calls, decode_calls, opens, diag>>

\* lines 73-90: the next f.write appends its bytes
WriteStep ==
    /\ pc = "write"
    /\ wpos <= NumWrites
    /\ ~PackRaises(WriteStmt(wpos))
    /\ disk' = disk \o WriteBytes(WriteStmt(wpos))
    /\ wpos' = wpos + 1
    /\ UNCHANGED <<pc, sample_rate, response, audio_data, handle, exc, retval,
                   exit_code, requests, json_calls, decode_calls, opens, diag>>

\* lines 74-89: struct.pack raises before f.write is called
PackFailed ==
    /\ pc = "write"
    /\ wpos <= NumWrites
    /\ PackRaises(WriteStmt(wpos))
    /\ exc' = "struct.error"
    /\ pc' = "close"
    /\ UNCHANGED <<sample_rate, response, audio_data, disk, handle, wpos,
                   retval, exit_code, requests, json_calls, decode_calls,
                   opens, diag>>

\* lines 73-90: f.write raises OSError (disk full) with none of its bytes
\* written; what earlier writes appended stays in the file
WriteFailed ==
    /\ pc = "write"
    /\ wpos <= NumWrites
    /\ ~PackRaises(WriteStmt(wpos))
    /\ WriteBytes(WriteStmt(wpos)) # <<>>
    /\ exc' = "OSError"
    /\ pc' = "close"
    /\ UNCHANGED <<sample_rate, response, audio_data, disk, handle, wpos,
                   retval, exit_code, requests, json_calls, decode_calls,
                   opens, diag>>

\* line 71: the with block is left after the last write
LeaveWith ==
    /\ pc = "write"
    /\ wpos = NumWrites + 1
    /\ pc' = "close"
    /\ UNCHANGED <<sample_rate, response, audio_data, disk, handle, wpos, exc,
                   retval, exit_code, requests, json_calls, decode_calls,
                   opens, diag>>

\* line 71: the with statement closes the file on every way out of the
\* block; lines 92-97 follow when no exception is pending
CloseFile ==
    /\ pc = "close"
    /\ handle' = "closed"
    /\ IF exc = "none"
       THEN /\ diag' = "success"
            /\ retval' = "True"
            /\ pc' = "returned"
       ELSE /\ retval' = "raised"
            /\ pc' = "raised"
            /\ UNCHANGED diag
    /\ UNCHANGED <<sample_rate, response, audio_data, disk, wpos, exc,
                   exit_code, requests, json_calls, decode_calls, opens>>

\* lines 108-109
MainExit ==
    /\ pc = "returned"
    /\ exit_code' = ExitStatus(retval)
    /\ pc' = "done"
    /\ UNCHANGED <<sample_rate, response, audio_data, disk, handle, wpos, exc,
                   retval, requests, json_calls, decode_calls, opens, diag>>

\* line 108: the exception propagates out of __main__
UncaughtException ==
    /\ pc = "raised"
    /\ diag' = "traceback"
    /\ exit_code' = UncaughtExitStatus
    /\ pc' = "done"
    /\ UNCHANGED <<sample_rate, response, audio_data, disk, handle, wpos, exc,
                   retval, requests, json_calls, decode_calls, opens>>

Next ==
    \/ PostAnswered
    \/ PostFailed
    \/ CheckStatus
    \/ ParseJson
    \/ CheckField
    \/ Decode
    \/ OpenFile
    \/ OpenFailed
    \/ WriteStep
    \/ PackFailed
    \/ WriteFailed
    \/ LeaveWith
    \/ CloseFile
    \/ MainExit
    \/ UncaughtException

Spec == Init /\ [][Next]_vars

----------------------------------------------------------------------------
(* Reading the file back: little-endian fields at a 0-based byte offset *)

ReadU16(f, off) == [hi |-> 0, lo |-> f[off + 1] + 256 * f[off + 2]]

ReadU32(f, off) ==
    [hi |-> f[off + 3] + 256 * f[off + 4], lo |-> f[off + 1] + 256 * f[off + 2]]

Bytes(f, off, n) == SubSeq(f, off + 1, off + n)

\* generate_wav returned True
Succeeded == retval = "True"

\* the output path holds a whole WAV file for the decoded buffer
FullyWritten == disk # Absent /\ handle = "closed" /\ Len(disk) = 44 + Len(audio_data)

----------------------------------------------------------------------------
(* Properties *)

\* C1: after a successful run the file has L + 44 bytes, bytes 4-7 read as a
\* little-endian u32 are L + 36 and bytes 40-43 are L, where L is the length
\* of the PCM buffer; with an empty buffer the file has 44 bytes and data
\* size 0.
C1_FileLength ==
    Succeeded =>
        /\ disk # Absent
        /\ Len(disk) = Len(audio_data) + 44
        /\ ReadU32(disk, 4) = PyInt(Len(audio_data) + 36)
        /\ ReadU32(disk, 40) = PyInt(Len(audio_data))
        /\ (audio_data = <<>> =>
               Len(disk) = 44 /\ Bytes(disk, 40, 4) = <<0, 0, 0, 0>>)

C1_Witness ==
    /\ pc = "done"
    /\ Succeeded
    /\ Len(audio_data) = 3
    /\ Len(disk) = 47

\* C2: after a successful run the file is, in this order and width, 'RIFF',
\* RIFF size (u32), 'WAVE', 'fmt ', 16 (u32), 1 (u16), channel count 1 (u16),
\* sample rate (u32), byte rate (u32), block align (u16), bits per sample 16
\* (u16), 'data', data size (u32), all little-endian, and then the decoded
\* buffer byte for byte from offset 44 to the end of the file.
C2_Layout ==
    Succeeded =>
        /\ Bytes(disk, 0, 4) = <<82, 73, 70, 70>>
        /\ ReadU32(disk, 4) = PyInt(36 + Len(audio_data))
        /\ Bytes(disk, 8, 4) = <<87, 65, 86, 69>>
        /\ Bytes(disk, 12, 4) = <<102, 109, 116, 32>>
        /\ Bytes(disk, 16, 4) = <<16, 0, 0, 0>>
        /\ Bytes(disk, 20, 2) = <<1, 0>>
        /\ Bytes(disk, 22, 2) = <<1, 0>>
        /\ ReadU32(disk, 24) = sample_rate
        /\ ReadU32(disk, 28) = PyMul(sample_rate, 2)
        /\ Bytes(disk, 32, 2) = <<2, 0>>
        /\ Bytes(disk, 34, 2) = <<16, 0>>
        /\ Bytes(disk, 36, 4) = <<100, 97, 116, 97>>
        /\ ReadU32(disk, 40) = PyInt(Len(audio_data))
        /\ Len(disk) = 44 + Len(audio_data)
        /\ Bytes(disk, 44, Len(audio_data)) = audio_data
        /\ audio_data = b64decode(response.content).out

C2_Witness ==
    /\ pc = "done"
    /\ Succeeded
    /\ sample_rate = PyInt(44100)
    /\ audio_data = <<3, 255, 255>>
    /\ Bytes(disk, 44, 3) = <<3, 255, 255>>

\* C3: in every file generate_wav writes, the byte-rate field, once written,
\* is sample rate x channel count x (bits per sample / 8) = 2 x sample rate
\* and fits in 32 bits, and the block-align field, once written, is
\* channel count x (bits per sample / 8) = 2.
C3_ByteRateBlockAlign ==
    /\ (disk # Absent /\ Len(disk) >= 32 =>
           /\ ReadU32(disk, 28) = PyMul(sample_rate, 1 * (16 \div 8))
           /\ ReadU32(disk, 28).hi \in 0..(Limb - 1))
    /\ (disk # Absent /\ Len(disk) >= 34 =>
           ReadU16(disk, 32) = PyInt(1 * (16 \div 8)))

C3_Witness ==
    /\ pc = "done"
    /\ Succeeded
    /\ sample_rate = [hi |-> 32767, lo |-> 65535]
    /\ ReadU32(disk, 28) = [hi |-> 65535, lo |-> 65534]

\* the answer had status 200 and a JSON body without the audioContent member
MissingAudioContent ==
    /\ response.status = 200
    /\ response.body \in {"object", "list"}
    /\ response.field = "absent"

\* C4: when the response lacks audioContent the output path is never opened
\* and no file exists, and the process exits with status 1.
C4_MissingFieldNoFile ==
    MissingAudioContent =>
        /\ opens = 0
        /\ handle = "none"
        /\ disk = Absent
        /\ (pc = "done" => exit_code = 1)

C4_Witness ==
    /\ MissingAudioContent
    /\ pc = "done"
    /\ diag = "no_audio"

\* C5: when the status is not 200, response.json() and base64.b64decode are
\* never called, no file is written, and the process exits with status 1.
C5_Non200NoDecode ==
    (pc # "start" /\ exc # "RequestException" /\ response.status # 200) =>
        /\ json_calls = 0
        /\ decode_calls = 0
        /\ opens = 0
        /\ disk = Absent
        /\ (pc = "done" => exit_code = 1)

C5_Witness ==
    /\ pc = "done"
    /\ response.status = 403
    /\ response.field = "string"
    /\ b64decode(response.content).ok
    /\ Len(response.content) = 4

\* some failure happened: the request raised, the status was not 200, the
\* payload was malformed or missing, or opening or writing the file failed
Failed ==
    \/ exc # "none"
    \/ response.status # 200
    \/ MissingAudioContent

\* C6: at exit the status is 0 exactly when the WAV file was fully written
\* and 1 after every failure; after a failure a diagnostic was printed and
\* generate_wav had returned False or raised.
C6_ExitCode ==
    pc = "done" =>
        /\ exit_code \in {0, 1}
        /\ (exit_code = 0 <=> FullyWritten)
        /\ (Failed <=> exit_code = 1)
        /\ (exit_code = 1 =>
               /\ diag \in {"http_error", "no_audio", "traceback"}
               /\ retval \in {"False", "raised"})

C6_Witness ==
    /\ pc = "done"
    /\ exit_code = 1
    /\ exc = "OSError"
    /\ opens = 1
    /\ wpos = NumWrites

\* C7: at exit the handle is not open and the output path holds either a
\* complete WAV file or nothing.
C7_NoPartialFile ==
    pc = "done" =>
        /\ handle # "open"
        /\ (disk = Absent \/ FullyWritten)

\* C8: after a successful run the header read back gives channel count 1 at
\* bytes 22-23, the sample rate passed in at 24-27, bits per sample 16 at
\* 34-35 and the length of the PCM buffer at 40-43.
C8_RoundTrip ==
    Succeeded =>
        /\ ReadU16(disk, 22) = PyInt(1)
        /\ ReadU32(disk, 24) = sample_rate
        /\ ReadU16(disk, 34) = PyInt(16)
        /\ ReadU32(disk, 40) = PyInt(Len(b64decode(response.content).out))

C8_Witness ==
    /\ pc = "done"
    /\ Succeeded
    /\ sample_rate = PyInt(8000)
    /\ Bytes(disk, 24, 4) = <<64, 31, 0, 0>>
    /\ Len(audio_data) = 2

\* C9: one request is made and never a second; after a failure the run only
\* terminates; the file is opened only after the one request was answered
\* with status 200 and a payload.
C9_SingleRequest ==
    /\ [](/\ requests = (IF pc = "start" THEN 0 ELSE 1)
          /\ (opens > 0 =>
                 /\ requests = 1
                 /\ response.status = 200
                 /\ response.field = "string"))
    /\ [][(pc \in {"returned", "raised"} /\ retval # "True") =>
              (pc' = "done" /\ requests' = requests /\ opens' = opens)]_vars

C9_Witness ==
    /\ pc = "done"
    /\ response.status = 500
    /\ requests = 1
    /\ exit_code = 1

\* C10: in every file written the PCM buffer has an even length, so the data
\* size field is a multiple of the block-align field.
C10_EvenLength ==
    Succeeded =>
        /\ Len(audio_data) % 2 = 0
        /\ ReadU32(disk, 40).lo % ReadU16(disk, 32).lo = 0

====
